---- MODULE Spec2Model ----
(***************************************************************************)
(* django-passwords: the password validators of passwords/validators.py    *)
(* and the form field of passwords/fields.py.                              *)
(*                                                                         *)
(* A string is a sequence of code points (Python 2 unicode), so that       *)
(* ord(), lower(), isupper() ... are computed, not assumed.  Every         *)
(* validator is a callable; one call is one action, taking the state from  *)
(* pc = "ready" (the inputs drawn by Init) to pc = "done" (the outcome).   *)
(***************************************************************************)
EXTENDS Integers, Sequences, FiniteSets, TLC

VARIABLES
    pc,       \* "ready" before the call, "done" after it
    value,    \* the candidate password (the needle), a sequence of code points
    policy,   \* the settings and constructor arguments the call reads
    outcome   \* what the call returned or raised

vars == <<pc, value, policy, outcome>>

---------------------------------------------------------------------------
(* Bounds of the model *)

\* longest candidate drawn for the length check
MaxLen == 4
\* largest min_length / max_length drawn
MaxBound == 4
\* longest candidate drawn for the complexity check
MaxComplexLen == 3
\* largest complexity minimum drawn
MaxMinimum == 2
\* longest needle and haystack drawn for fuzzy_substring
MaxFuzzyLen == 3
\* longest candidate and reference string drawn for the similarity check
MaxSimLen == 2
\* longest strings drawn for longest_common_substring
MaxLcsLen == 3
\* longest candidate and reference string drawn for the common-substring check
MaxCommonLen == 2
\* longest candidate drawn for the form field
MaxFieldLen == 2

---------------------------------------------------------------------------
(* Python values *)

\* an optional value: None is the empty set, a set value x is {x}
None == {}
Some(x) == {x}
Get(o) == CHOOSE x \in o : TRUE
\* Python truth of an optional int: None and 0 are both false
Truthy(o) == o # None /\ Get(o) # 0

Pending == [type |-> "pending"]
\* a validator that returns (None) accepts the value
ReturnNone == [type |-> "return"]
Return(x) == [type |-> "return", result |-> x]
ValidationError(message) == [type |-> "ValidationError", message |-> message]
ValidationErrorCode(message, code) ==
    [type |-> "ValidationError", message |-> message, code |-> code]

Min(S) == CHOOSE x \in S : \A y \in S : x <= y
Max2(a, b) == IF a >= b THEN a ELSE b
Range(s) == {s[i] : i \in 1..Len(s)}

\* all sequences over alphabet A of length at most n
SeqsUpTo(A, n) == UNION {[1..k -> A] : k \in 0..n}

---------------------------------------------------------------------------
(* LengthValidator *)

LengthValidatorCall(v, min_length, max_length) ==
    IF Truthy(min_length) /\ Len(v) < Get(min_length)
      THEN ValidationError("Password is too short.")
    ELSE IF Truthy(max_length) /\ Len(v) > Get(max_length)
      THEN ValidationError("Password is too long.")
    ELSE ReturnNone

OptionalBounds == {None} \cup {Some(n) : n \in 0..MaxBound}

InitLength ==
    /\ pc = "ready"
    /\ value \in SeqsUpTo({97}, MaxLen)
    /\ policy \in [min_length : OptionalBounds, max_length : OptionalBounds]
    /\ outcome = Pending

ValidateLength ==
    /\ pc = "ready"
    /\ outcome' = LengthValidatorCall(value, policy.min_length, policy.max_length)
    /\ pc' = "done"
    /\ UNCHANGED <<value, policy>>

SpecLength == InitLength /\ [][ValidateLength]_vars

\* C2: the length check returns TooShort exactly when min_length is set and
\* len(candidate) < min_length, otherwise TooLong exactly when max_length is
\* set and len(candidate) > max_length, otherwise Valid -- a bound of 0
\* counting as set.
C2_LengthContract ==
    pc = "done" =>
        outcome =
            IF policy.min_length # None /\ Len(value) < Get(policy.min_length)
              THEN ValidationError("Password is too short.")
            ELSE IF policy.max_length # None /\ Len(value) > Get(policy.max_length)
              THEN ValidationError("Password is too long.")
            ELSE ReturnNone

\* a candidate violating only a max_length of 0
C2_ZeroBoundCase ==
    pc = "done" /\ policy.max_length = Some(0) /\ Len(value) > 0

---------------------------------------------------------------------------
(* Characters: unicode code points of the Latin-1 range *)

\* unicode.lower()
Lower(c) ==
    IF c \in 65..90 \/ (c \in 192..222 /\ c # 215) THEN c + 32 ELSE c
LowerStr(s) == [i \in 1..Len(s) |-> Lower(s[i])]

IsUpper(c) == c \in 65..90 \/ (c \in 192..222 /\ c # 215)
IsLower(c) == c \in 97..122 \/ c \in {170, 181, 186} \/ (c \in 223..255 /\ c # 247)
IsDigit(c) == c \in 48..57
\* string.punctuation
Punctuation == (33..47) \cup (58..64) \cup (91..96) \cup (123..126)
\* the characters unicode.split() splits on
IsSpace(c) == c \in (9..13) \cup (28..32) \cup {133, 160}

---------------------------------------------------------------------------
(* ComplexityValidator *)

\* dict.get(key, default)
DictGet(d, key, default) == IF key \in DOMAIN d THEN d[key] ELSE default

\* the if/elif chain of the classification loop
MutCharacterClass(c) ==
    IF IsUpper(c) THEN "uppercase"
    ELSE IF IsLower(c) THEN "lowercase"
    ELSE IF IsDigit(c) THEN "digits"
    ELSE IF c \in Punctuation THEN "punctuation"
    ELSE "non_ascii"

CharacterClass(c) ==
    IF c >= 128 THEN "non_ascii"
    ELSE IF IsUpper(c) THEN "uppercase"
    ELSE IF IsLower(c) THEN "lowercase"
    ELSE IF IsDigit(c) THEN "digits"
    ELSE IF c \in Punctuation THEN "punctuation"
    ELSE "non_ascii"

\* the set a class's characters were add()ed to, after the loop
ClassSet(v, class) == {v[i] : i \in {j \in 1..Len(v) : CharacterClass(v[j]) = class}}

\* set(value.split()): the maximal runs of non-whitespace characters
Words(v) ==
    {SubSeq(v, i, j) : <<i, j>> \in
        {p \in (1..Len(v)) \X (1..Len(v)) :
            /\ p[1] <= p[2]
            /\ \A k \in p[1]..p[2] : ~IsSpace(v[k])
            /\ (p[1] = 1 \/ IsSpace(v[p[1] - 1]))
            /\ (p[2] = Len(v) \/ IsSpace(v[p[2] + 1]))}}

ComplexityValidatorCall(v, complexities) ==
    IF complexities = None THEN ReturnNone
    ELSE LET c == Get(complexities) IN
      IF Cardinality(ClassSet(v, "uppercase")) < DictGet(c, "UPPER", 0)
        THEN ValidationError("Must contain more uppercase characters.")
      ELSE IF Cardinality(ClassSet(v, "lowercase")) < DictGet(c, "LOWER", 0)
        THEN ValidationError("Must contain more lowercase characters.")
      ELSE IF Cardinality(ClassSet(v, "digits")) < DictGet(c, "DIGITS", 0)
        THEN ValidationError("Must contain more digits.")
      ELSE IF Cardinality(ClassSet(v, "punctuation")) < DictGet(c, "PUNCTUATION", 0)
        THEN ValidationError("Must contain more punctuation.")
      ELSE IF Cardinality(ClassSet(v, "non_ascii")) < DictGet(c, "NON ASCII", 0)
        THEN ValidationError("Must contain more symbol characters.")
      ELSE IF Cardinality(Words(v)) < DictGet(c, "WORDS", 0)
        THEN ValidationError("Must contain more unique words.")
      ELSE ReturnNone

\* "A", "a", "1", "!", " " and the uppercase non-ASCII letter 201
ComplexAlphabet == {65, 97, 49, 33, 32, 201}
ComplexityKeys == {"UPPER", "LOWER", "DIGITS", "PUNCTUATION", "NON ASCII", "WORDS"}
Str_aaaa1111 == <<97, 97, 97, 97, 49, 49, 49, 49>>
\* PASSWORD_COMPLEXITY: None, or a dict of at most two minimums
ComplexityDicts ==
    UNION {[{k1, k2} -> 0..MaxMinimum] : <<k1, k2>> \in ComplexityKeys \X ComplexityKeys}
        \cup {<<>>, [k \in {"DIGITS"} |-> 4]}

InitComplexity ==
    /\ pc = "ready"
    /\ value \in SeqsUpTo(ComplexAlphabet, MaxComplexLen) \cup {Str_aaaa1111}
    /\ policy \in [complexities : {None} \cup {Some(d) : d \in ComplexityDicts}]
    /\ outcome = Pending

ValidateComplexity ==
    /\ pc = "ready"
    /\ outcome' = ComplexityValidatorCall(value, policy.complexities)
    /\ pc' = "done"
    /\ UNCHANGED <<value, policy>>

SpecComplexity == InitComplexity /\ [][ValidateComplexity]_vars

\* the classes in the order they are compared, with each one's failure
ClassOrder == <<"UPPER", "LOWER", "DIGITS", "PUNCTUATION", "NON ASCII", "WORDS">>
ClassMessage ==
    <<"Must contain more uppercase characters.",
      "Must contain more lowercase characters.",
      "Must contain more digits.",
      "Must contain more punctuation.",
      "Must contain more symbol characters.",
      "Must contain more unique words.">>
\* the one class of a code point, as the claim lists them
ClaimedClass(c) ==
    CASE c >= 128 -> "NON ASCII"
      [] c \in 65..90 -> "UPPER"
      [] c \in 97..122 -> "LOWER"
      [] c \in 48..57 -> "DIGITS"
      [] c \in {33, 34, 35, 36, 37, 38, 39, 40, 41, 42, 43, 44, 45, 46, 47, 58, 59,
                60, 61, 62, 63, 64, 91, 92, 93, 94, 95, 96, 123, 124, 125, 126}
           -> "PUNCTUATION"
      [] OTHER -> "NON ASCII"
DistinctCount(v, class) ==
    IF class = "WORDS" THEN Cardinality(Words(v))
    ELSE Cardinality({c \in Range(v) : ClaimedClass(c) = class})
Deficient(v, minimums) ==
    {i \in 1..Len(ClassOrder) :
        DistinctCount(v, ClassOrder[i]) <
            (IF ClassOrder[i] \in DOMAIN minimums THEN minimums[ClassOrder[i]] ELSE 0)}

\* C3: the complexity check fails with the reason of the first class, in the
\* order UPPER, LOWER, DIGITS, PUNCTUATION, NON_ASCII, WORDS, whose number of
\* distinct characters (distinct words for WORDS) is below its minimum, an
\* absent minimum being 0; it accepts when no class is deficient or the
\* minimums are None; "aaaa1111" with {DIGITS: 4} fails on digits.
C3_ComplexityContract ==
    pc = "done" =>
        /\ outcome =
            IF policy.complexities = None
                  \/ Deficient(value, Get(policy.complexities)) = {}
              THEN ReturnNone
              ELSE ValidationError(
                     ClassMessage[Min(Deficient(value, Get(policy.complexities)))])
        /\ (value = Str_aaaa1111 /\ policy.complexities = Some([k \in {"DIGITS"} |-> 4])
              => outcome = ValidationError("Must contain more digits."))

\* a repeated character counted once makes a class deficient, and an earlier
\* class in the order is deficient as well as a later one
C3_DistinctAndOrderCase ==
    /\ pc = "done"
    /\ policy.complexities # None
    /\ \E i \in 1..Len(value) : \E j \in 1..Len(value) : i # j /\ value[i] = value[j]
    /\ Cardinality(Deficient(value, Get(policy.complexities))) = 2
    /\ outcome.type = "ValidationError"

---------------------------------------------------------------------------
(* BaseSimilarityValidator.fuzzy_substring *)

Min3(a, b, c) == Min({a, b, c})

\* a first row counting up, as in the ordinary Levenshtein distance
MutFirstRow(n) == [k \in 1..(n + 1) |-> k - 1]

\* row1 = [0] * (n+1)
FirstRow(n) == [k \in 1..(n + 1) |-> 0]

\* the inner loop: row2, begun as [i+1], is appended to until it has n+1 cells.
\* Python's row[j] is row[j + 1] here.
RECURSIVE InnerLoop(_, _, _, _)
InnerLoop(row2, row1, c, haystack) ==
    IF Len(row2) = Len(haystack) + 1 THEN row2
    ELSE LET j == Len(row2)
             cost == IF c # haystack[j] THEN 1 ELSE 0
         IN InnerLoop(Append(row2, Min3(row1[j + 1] + 1, row2[j] + 1, row1[j] + cost)),
                      row1, c, haystack)

\* the outer loop from needle[i] on (i counted from 1): the last row
RECURSIVE OuterLoop(_, _, _, _)
OuterLoop(i, row1, needle, haystack) ==
    IF i > Len(needle) THEN row1
    ELSE OuterLoop(i + 1, InnerLoop(<<i>>, row1, needle[i], haystack), needle, haystack)

fuzzy_substring(needle0, haystack0) ==
    LET needle == LowerStr(needle0)
        haystack == LowerStr(haystack0)
        m == Len(needle)
        n == Len(haystack)
    IN IF m = 1 /\ needle[1] \notin Range(haystack) THEN -1
       ELSE IF n = 0 THEN m
       ELSE Min(Range(OuterLoop(1, FirstRow(n), needle, haystack)))

\* "a", "A" and "b"
FuzzyAlphabet == {97, 65, 98}

InitFuzzy ==
    /\ pc = "ready"
    /\ value \in SeqsUpTo(FuzzyAlphabet, MaxFuzzyLen)
    /\ policy \in [haystack : SeqsUpTo(FuzzyAlphabet, MaxFuzzyLen)]
    /\ outcome = Pending

FuzzySubstring ==
    /\ pc = "ready"
    /\ outcome' = Return(fuzzy_substring(value, policy.haystack))
    /\ pc' = "done"
    /\ UNCHANGED <<value, policy>>

SpecFuzzy == InitFuzzy /\ [][FuzzySubstring]_vars

\* The reference: the ordinary Levenshtein distance by the full matrix, whose
\* first row is 0..n and first column 0..m, the distance being the last cell.
\* row i of the matrix (a sequence whose k-th cell is column k - 1), filled
\* left to right from the rows above it
RECURSIVE LevRow(_, _, _, _)
LevRow(row, rows, a, b) ==
    IF Len(row) = Len(b) + 1 THEN row
    ELSE LET i == Len(rows)
             j == Len(row)
             above == rows[i]
             cell == IF i = 0 THEN j
                     ELSE IF j = 0 THEN i
                     ELSE Min3(above[j + 1] + 1,
                               row[j] + 1,
                               above[j] + (IF a[i] = b[j] THEN 0 ELSE 1))
         IN LevRow(Append(row, cell), rows, a, b)
RECURSIVE LevMatrix(_, _, _)
LevMatrix(rows, a, b) ==
    IF Len(rows) = Len(a) + 1 THEN rows
    ELSE LevMatrix(Append(rows, LevRow(<<>>, rows, a, b)), a, b)
Levenshtein(a, b) == LevMatrix(<<>>, a, b)[Len(a) + 1][Len(b) + 1]

\* every contiguous substring, the empty one included
Substrings(s) ==
    {<<>>} \cup {SubSeq(s, p[1], p[2]) :
                   p \in {q \in (1..Len(s)) \X (1..Len(s)) : q[1] <= q[2]}}

\* C7: for a needle whose length is not 1, fuzzy_substring is the least
\* Levenshtein distance between the lowercased needle and any contiguous
\* substring (the empty one included) of the lowercased haystack; and a
\* string matched against itself scores 0.
C7_FuzzyIsBestSubstringDistance ==
    pc = "done" =>
        /\ Len(value) # 1 =>
             outcome.result =
                Min({Levenshtein(LowerStr(value), t) :
                        t \in Substrings(LowerStr(policy.haystack))})
        /\ value = policy.haystack => outcome.result = 0

\* a needle of two or more characters that is no substring of the haystack and
\* whose best alignment does not start at the haystack's first character
C7_FreeStartCase ==
    /\ pc = "done"
    /\ Len(value) >= 2
    /\ Len(policy.haystack) > Len(value)
    /\ outcome.result > 0
    /\ outcome.result < Levenshtein(LowerStr(value),
                                    SubSeq(LowerStr(policy.haystack), 1, Len(value)))

\* C9: against an empty haystack the distance is len(needle), whatever the
\* needle's length.
C9_EmptyHaystackGivesLength ==
    pc = "done" /\ policy.haystack = <<>> => outcome.result = Len(value)

---------------------------------------------------------------------------
(* BaseSimilarityValidator.__call__, as CommonSequenceValidator and as
   DictionaryValidator *)

\* PASSWORD_MATCH_THRESHOLD, 0.9, as the fraction 9/10
MatchThresholdNum == 9
MatchThresholdDen == 10

ZeroDivisionError == [type |-> "ZeroDivisionError"]

SimilarityMessage(validator) ==
    IF validator = "common_sequence"
      THEN "Password is based on a common sequence of characters."
      ELSE "Password is based on a dictionary word."

\* a strict comparison with the threshold
MutAtLeastThreshold(distance, longest) ==
    (longest - distance) * MatchThresholdDen > MatchThresholdNum * longest

\* similarity >= PASSWORD_MATCH_THRESHOLD, for longest > 0:
\* (longest - distance) / longest >= 9/10, the division being true division
AtLeastThreshold(distance, longest) ==
    (longest - distance) * MatchThresholdDen >= MatchThresholdNum * longest

\* the loop over the haystacks from the k-th on: the first haystack that makes
\* the division fault or the comparison hold ends the call
RECURSIVE SimilarityLoop(_, _, _, _)
SimilarityLoop(k, v, haystacks, validator) ==
    IF k > Len(haystacks) THEN ReturnNone
    ELSE LET haystack == haystacks[k]
             distance == fuzzy_substring(v, haystack)
             longest == Max2(Len(v), Len(haystack))
         IN IF longest = 0 THEN ZeroDivisionError
            ELSE IF AtLeastThreshold(distance, longest)
              THEN ValidationErrorCode(SimilarityMessage(validator), validator)
            ELSE SimilarityLoop(k + 1, v, haystacks, validator)

SimilarityValidatorCall(v, haystacks, validator) ==
    SimilarityLoop(1, v, haystacks, validator)

Str_abcdefgh == <<97, 98, 99, 100, 101, 102, 103, 104>>
Str_abcdefgi == <<97, 98, 99, 100, 101, 102, 103, 105>>
Str_abcdefghij == <<97, 98, 99, 100, 101, 102, 103, 104, 105, 106>>
Str_abcdefghiz == <<97, 98, 99, 100, 101, 102, 103, 104, 105, 122>>

SimStrings == SeqsUpTo(FuzzyAlphabet, MaxSimLen)
\* the reference lists: none, one or two short strings, or one long sequence
SimHaystacks ==
    {<<>>} \cup {<<h>> : h \in SimStrings \cup {Str_abcdefgh, Str_abcdefghij}}
           \cup {<<h[1], h[2]>> : h \in SimStrings \X SimStrings}

InitSimilarity ==
    /\ pc = "ready"
    /\ value \in SimStrings \cup {Str_abcdefgh, Str_abcdefgi, Str_abcdefghiz}
    /\ policy \in [validator : {"common_sequence", "dictionary_word"},
                   haystacks : SimHaystacks]
    /\ outcome = Pending

ValidateSimilarity ==
    /\ pc = "ready"
    /\ outcome' = SimilarityValidatorCall(value, policy.haystacks, policy.validator)
    /\ pc' = "done"
    /\ UNCHANGED <<value, policy>>

SpecSimilarity == InitSimilarity /\ [][ValidateSimilarity]_vars

\* the least Levenshtein distance to a substring of the lowercased haystack
BestSubstringDistance(needle, haystack) ==
    Min({Levenshtein(LowerStr(needle), t) : t \in Substrings(LowerStr(haystack))})
TooSimilar(v, haystack) ==
    LET longest == IF Len(v) >= Len(haystack) THEN Len(v) ELSE Len(haystack)
    IN 10 * (longest - BestSubstringDistance(v, haystack)) >= 9 * longest

\* C4 as stated: with common_sequences = ["abcdefgh"] and the threshold 0.9,
\* "abcdefgi" is rejected as too similar to the sequence.
C4_AbcdefgiRejected ==
    pc = "done" /\ value = Str_abcdefgi /\ policy.haystacks = <<Str_abcdefgh>>
        => outcome.type = "ValidationError"

\* C4 as amended: with common_sequences = ["abcdefgh"] and the threshold 0.9,
\* "abcdefgi" is accepted by the similarity check (distance 1, similarity
\* 7/8 < 0.9) while "abcdefgh" is rejected; for every candidate of two or more
\* characters the check rejects exactly when some reference string has
\* (longest - distance) / longest >= 0.9, longest = max(len(candidate),
\* len(reference)), with the validator's own code.
C4_SimilarityVerdict ==
    pc = "done" =>
        /\ value = Str_abcdefgi /\ policy.haystacks = <<Str_abcdefgh>>
             => outcome = ReturnNone
        /\ value = Str_abcdefgh /\ policy.haystacks = <<Str_abcdefgh>>
             => outcome.type = "ValidationError"
        /\ Len(value) >= 2 =>
             outcome =
                IF \E k \in 1..Len(policy.haystacks) :
                       TooSimilar(value, policy.haystacks[k])
                  THEN ValidationErrorCode(SimilarityMessage(policy.validator),
                                           policy.validator)
                  ELSE ReturnNone

\* "abcdefgi" checked against ["abcdefgh"] and accepted
C4_AbcdefgiAccepted ==
    /\ pc = "done"
    /\ value = Str_abcdefgi
    /\ policy.haystacks = <<Str_abcdefgh>>
    /\ outcome = ReturnNone

\* C6: an empty candidate compared with an empty reference string is handled
\* as maximal similarity: the check rejects it as too similar, and neither
\* faults nor accepts.
C6_EmptyAgainstEmptyRejected ==
    pc = "done" /\ value = <<>> /\ policy.haystacks # <<>> /\ policy.haystacks[1] = <<>>
        => outcome = ValidationErrorCode(SimilarityMessage(policy.validator),
                                         policy.validator)

\* C8: a one-character candidate is never reported too similar to reference
\* strings, all non-empty, none of which contains the character (compared in
\* lowercase).
C8_AbsentCharacterIsNoMatch ==
    (/\ pc = "done"
     /\ Len(value) = 1
     /\ policy.haystacks # <<>>
     /\ \A k \in 1..Len(policy.haystacks) :
           /\ policy.haystacks[k] # <<>>
           /\ Lower(value[1]) \notin Range(LowerStr(policy.haystacks[k])))
        => outcome = ReturnNone

---------------------------------------------------------------------------
(* CommonSubStringValidator *)

\* a tie replaces the substring found so far
MutImproves(cell, longest) == cell >= longest

\* if m[x][y] > longest
Improves(cell, longest) == cell > longest

\* m = [[0] * (1 + len(haystack)) for i in xrange(1 + len(needle))];
\* Python's m[x][y] is m[x + 1][y + 1] here
ZeroMatrix(needle, haystack) ==
    [x \in 1..(Len(needle) + 1) |-> [y \in 1..(Len(haystack) + 1) |-> 0]]

\* the inner loop, from column st.y of row st.x on; st holds the loop's
\* variables x, y, m, longest and x_longest
RECURSIVE LcsColumns(_, _, _)
LcsColumns(st, needle, haystack) ==
    IF st.y > Len(haystack) THEN st
    ELSE IF needle[st.x] = haystack[st.y]
      THEN LET cell == st.m[st.x][st.y] + 1
               better == Improves(cell, st.longest)
           IN LcsColumns([x |-> st.x, y |-> st.y + 1,
                          m |-> [st.m EXCEPT ![st.x + 1][st.y + 1] = cell],
                          longest |-> IF better THEN cell ELSE st.longest,
                          x_longest |-> IF better THEN st.x ELSE st.x_longest],
                         needle, haystack)
      ELSE LcsColumns([st EXCEPT !.y = st.y + 1, !.m[st.x + 1][st.y + 1] = 0],
                      needle, haystack)

\* the outer loop, from row st.x on
RECURSIVE LcsRows(_, _, _)
LcsRows(st, needle, haystack) ==
    IF st.x > Len(needle) THEN st
    ELSE LcsRows([LcsColumns([st EXCEPT !.y = 1], needle, haystack)
                     EXCEPT !.x = st.x + 1],
                 needle, haystack)

\* needle[x_longest - longest: x_longest]
longest_common_substring(needle, haystack) ==
    LET st == LcsRows([x |-> 1, y |-> 1, m |-> ZeroMatrix(needle, haystack),
                       longest |-> 0, x_longest |-> 0],
                      needle, haystack)
    IN SubSeq(needle, st.x_longest - st.longest + 1, st.x_longest)

Str_abc == <<97, 98, 99>>
Str_ABC == <<65, 66, 67>>

InitLcs ==
    /\ pc = "ready"
    /\ value \in SeqsUpTo(FuzzyAlphabet, MaxLcsLen) \cup {Str_abc}
    /\ policy \in [haystack : SeqsUpTo(FuzzyAlphabet, MaxLcsLen) \cup {Str_abc, Str_ABC}]
    /\ outcome = Pending

LongestCommonSubstring ==
    /\ pc = "ready"
    /\ outcome' = Return(longest_common_substring(value, policy.haystack))
    /\ pc' = "done"
    /\ UNCHANGED <<value, policy>>

SpecLcs == InitLcs /\ [][LongestCommonSubstring]_vars

\* the end positions e in a of the occurrences of length n of a run shared
\* with b, character for character
SharedEnds(a, b, n) ==
    {e \in n..Len(a) :
        \E f \in n..Len(b) : \A k \in 0..(n - 1) : a[e - k] = b[f - k]}
\* the greatest length of a shared run
SharedMax(a, b) ==
    CHOOSE n \in 0..Len(a) :
        /\ SharedEnds(a, b, n) # {}
        /\ \A k \in (n + 1)..Len(a) : SharedEnds(a, b, k) = {}
\* the shared run of greatest length that ends first in a
FirstLongestShared(a, b) ==
    LET n == SharedMax(a, b)
        e == Min(SharedEnds(a, b, n))
    IN SubSeq(a, e - n + 1, e)

\* C10: longest_common_substring(a, b) is a contiguous run of a that occurs
\* in b with exact, case-sensitive equality, of the greatest length of any
\* such run, and among the runs of that length the one ending at the smallest
\* position in a; so it is s for (s, s) and empty for ("abc", "ABC").
C10_LongestCommonSubstring ==
    pc = "done" =>
        /\ outcome.result = FirstLongestShared(value, policy.haystack)
        /\ value = policy.haystack => outcome.result = value
        /\ value = Str_abc /\ policy.haystack = Str_ABC => outcome.result = <<>>

\* two different shared runs of the greatest length: the first is returned
C10_TieCase ==
    /\ pc = "done"
    /\ Cardinality(SharedEnds(value, policy.haystack,
                              SharedMax(value, policy.haystack))) >= 2
    /\ SharedMax(value, policy.haystack) >= 1
    /\ Len(outcome.result) = SharedMax(value, policy.haystack)
    /\ \E e \in SharedEnds(value, policy.haystack, Len(outcome.result)) :
          SubSeq(value, e - Len(outcome.result) + 1, e) # outcome.result

---------------------------------------------------------------------------
(* CommonSubStringValidator.__call__ and the module's validators *)

COMMON_SEQUENCES ==
    << <<48, 49, 50, 51, 52, 53, 54, 55, 56, 57>>,
       <<96, 49, 50, 51, 52, 53, 54, 55, 56, 57, 48, 45, 61>>,
       <<126, 33, 64, 35, 36, 37, 94, 38, 42, 40, 41, 95, 43>>,
       <<97, 98, 99, 100, 101, 102, 103, 104, 105, 106, 107, 108, 109, 110, 111,
         112, 113, 114, 115, 116, 117, 118, 119, 120, 121, 122>>,
       <<113, 117, 101, 114, 116, 121, 117, 105, 111, 112, 91, 93, 92, 97, 115,
         100, 102, 103, 104, 106, 107, 108, 59, 39, 122, 120, 99, 118, 98, 110,
         109, 44, 46, 47>>,
       <<113, 117, 101, 114, 116, 121, 117, 105, 111, 112, 123, 125, 124, 97, 115,
         100, 102, 103, 104, 106, 107, 108, 59, 34, 122, 120, 99, 118, 98, 110,
         109, 60, 62, 63>>,
       <<113, 117, 101, 114, 116, 121, 117, 105, 111, 112, 97, 115, 100, 102, 103,
         104, 106, 107, 108, 122, 120, 99, 118, 98, 110, 109>>,
       <<49, 113, 97, 122, 50, 119, 115, 120, 51, 101, 100, 99, 52, 114, 102, 118,
         53, 116, 103, 98, 54, 121, 104, 110, 55, 117, 106, 109, 56, 105, 107, 44,
         57, 111, 108, 46, 48, 112, 59, 47, 45, 91, 39, 61, 93, 92>>,
       <<113, 97, 122, 119, 115, 120, 101, 100, 99, 114, 102, 118, 116, 103, 98,
         121, 104, 110, 117, 106, 109, 105, 107, 111, 108, 112>> >>

\* the default of PASSWORD_MAX_COMMON_SUBSTRING_LENGTH
DefaultMaxCommonSubstringLength == 4

\* the message "Too Similar to %(haystacks)s" with the substring filled in
CommonSubstringError(substring) ==
    [type |-> "ValidationError", message |-> <<"Too Similar to ", substring>>,
     code |-> "common_substring"]

\* the loop over the haystacks from the k-th on
RECURSIVE CommonSubstringLoop(_, _, _, _)
CommonSubstringLoop(k, v, haystacks, max_length) ==
    IF k > Len(haystacks) THEN ReturnNone
    ELSE LET a_common_substring == longest_common_substring(v, haystacks[k])
         IN IF Len(a_common_substring) >= max_length
              THEN CommonSubstringError(a_common_substring)
              ELSE CommonSubstringLoop(k + 1, v, haystacks, max_length)

CommonSubStringValidatorCall(v, haystacks, max_length) ==
    CommonSubstringLoop(1, v, haystacks, max_length)

\* the reference strings taken from the dictionary
MutCommonSubstringHaystacks(settings) == settings.PASSWORD_DICTIONARY

\* common_substring = CommonSubStringValidator(PASSWORD_COMMON_SEQUENCES)
CommonSubstringHaystacks(settings) == settings.PASSWORD_COMMON_SEQUENCES

Str_myelephant99 == <<109, 121, 101, 108, 101, 112, 104, 97, 110, 116, 57, 57>>
Str_elephant == <<101, 108, 101, 112, 104, 97, 110, 116>>
Str_eleph == <<101, 108, 101, 112, 104>>

\* strings of "a" and "b"
CommonStrings == SeqsUpTo({97, 98}, MaxCommonLen)
\* PASSWORD_COMMON_SEQUENCES: the default list, or a list of up to two strings
CommonSequenceLists ==
    {COMMON_SEQUENCES, <<>>, <<Str_elephant>>}
        \cup {<<h>> : h \in CommonStrings}
        \cup {<<h[1], h[2]>> : h \in CommonStrings \X CommonStrings}

\* PASSWORD_DICTIONARY stands for the words read from the dictionary file
InitCommonSubstring ==
    /\ pc = "ready"
    /\ value \in CommonStrings \cup {Str_myelephant99}
    /\ policy \in [PASSWORD_COMMON_SEQUENCES : CommonSequenceLists,
                   PASSWORD_DICTIONARY : {<<>>, <<Str_elephant>>, <<<<97, 98>>>>},
                   PASSWORD_MAX_COMMON_SUBSTRING_LENGTH :
                       {1, 2, DefaultMaxCommonSubstringLength}]
    /\ outcome = Pending

ValidateCommonSubstring ==
    /\ pc = "ready"
    /\ outcome' = CommonSubStringValidatorCall(value, CommonSubstringHaystacks(policy),
                       policy.PASSWORD_MAX_COMMON_SUBSTRING_LENGTH)
    /\ pc' = "done"
    /\ UNCHANGED <<value, policy>>

SpecCommonSubstring == InitCommonSubstring /\ [][ValidateCommonSubstring]_vars

\* C5 as stated: with the maximum 4 and a dictionary containing "elephant",
\* "myelephant99" is rejected by the common-substring check, which reports
\* "eleph" or a longer run of "elephant".
C5_DictionaryWordReported ==
    (/\ pc = "done"
     /\ value = Str_myelephant99
     /\ policy.PASSWORD_MAX_COMMON_SUBSTRING_LENGTH = 4
     /\ Str_elephant \in Range(policy.PASSWORD_DICTIONARY))
        => /\ outcome.type = "ValidationError"
           /\ outcome.code = "common_substring"
           /\ Len(outcome.message[2]) >= Len(Str_eleph)
           /\ SubSeq(outcome.message[2], 1, Len(Str_eleph)) = Str_eleph

\* the reference strings, in order, that share a run of at least n characters
\* with v
Qualifying(v, sequences, n) ==
    {k \in 1..Len(sequences) : SharedMax(v, sequences[k]) >= n}

\* C5 as amended: the common-substring check compares the candidate with the
\* configured common sequences, never with the dictionary words: it rejects
\* exactly when some sequence shares a run of at least
\* max_common_substring_length characters with the candidate, reporting the
\* longest run shared with the first such sequence; with the maximum 4 and
\* the common sequences ["elephant"], "myelephant99" is rejected with
\* "elephant".
C5_CommonSequencesCompared ==
    pc = "done" =>
        LET n == policy.PASSWORD_MAX_COMMON_SUBSTRING_LENGTH
            q == Qualifying(value, policy.PASSWORD_COMMON_SEQUENCES, n)
        IN /\ outcome =
                IF q = {} THEN ReturnNone
                ELSE CommonSubstringError(
                       FirstLongestShared(value, policy.PASSWORD_COMMON_SEQUENCES[Min(q)]))
           /\ value = Str_myelephant99 /\ n = 4
                /\ policy.PASSWORD_COMMON_SEQUENCES = <<Str_elephant>>
                => outcome = CommonSubstringError(Str_elephant)

\* "myelephant99" rejected for the common sequence "elephant", the dictionary
\* holding no word
C5_ElephantSequenceCase ==
    /\ pc = "done"
    /\ value = Str_myelephant99
    /\ policy.PASSWORD_MAX_COMMON_SUBSTRING_LENGTH = 4
    /\ policy.PASSWORD_COMMON_SEQUENCES = <<Str_elephant>>
    /\ policy.PASSWORD_DICTIONARY = <<>>
    /\ outcome = CommonSubstringError(Str_elephant)

---------------------------------------------------------------------------
(* The module's validator instances and fields.PasswordField *)

\* the default of PASSWORD_MIN_LENGTH
DefaultMinLength == 6

\* validate_length = LengthValidator(PASSWORD_MIN_LENGTH, PASSWORD_MAX_LENGTH)
validate_length(settings, v) ==
    LengthValidatorCall(v, settings.PASSWORD_MIN_LENGTH, settings.PASSWORD_MAX_LENGTH)
\* complexity = ComplexityValidator(PASSWORD_COMPLEXITY)
complexity(settings, v) == ComplexityValidatorCall(v, settings.PASSWORD_COMPLEXITY)
\* dictionary_words = DictionaryValidator(dictionary=PASSWORD_DICTIONARY)
dictionary_words(settings, v) ==
    SimilarityValidatorCall(v, settings.PASSWORD_DICTIONARY, "dictionary_word")
\* common_sequences = CommonSequenceValidator(PASSWORD_COMMON_SEQUENCES)
common_sequences(settings, v) ==
    SimilarityValidatorCall(v, settings.PASSWORD_COMMON_SEQUENCES, "common_sequence")
\* common_substring = CommonSubStringValidator(PASSWORD_COMMON_SEQUENCES)
common_substring(settings, v) ==
    CommonSubStringValidatorCall(v, CommonSubstringHaystacks(settings),
                                 settings.PASSWORD_MAX_COMMON_SUBSTRING_LENGTH)

\* the names the module passwords.validators binds
ValidatorsModuleNames ==
    {"division", "with_statement", "string", "ValidationError", "_", "smart_unicode",
     "settings", "COMMON_SEQUENCES", "PASSWORD_MIN_LENGTH", "PASSWORD_MAX_LENGTH",
     "PASSWORD_MAX_COMMON_SUBSTRING_LENGTH", "PASSWORD_DICTIONARY",
     "PASSWORD_MATCH_THRESHOLD", "PASSWORD_COMMON_SEQUENCES", "PASSWORD_COMPLEXITY",
     "LengthValidator", "ComplexityValidator", "BaseSimilarityValidator",
     "DictionaryValidator", "CommonSequenceValidator", "CommonSubStringValidator",
     "validate_length", "complexity", "dictionary_words", "common_sequences",
     "common_substring"}

\* the names fields.py imports from passwords.validators, in the order of its
\* import statements
FieldsImports ==
    <<"validate_length", "common_sequences", "dictionary_words", "complexity",
      "common_sub_string">>

\* PasswordField.default_validators
DefaultValidators ==
    <<"validate_length", "common_sequences", "dictionary_words", "complexity",
      "common_sub_string">>

\* importing passwords.fields: each from-import of a name the module does not
\* bind raises ImportError, and the class is never defined
ImportFields ==
    LET missing == {i \in 1..Len(FieldsImports) : FieldsImports[i] \notin ValidatorsModuleNames}
    IN IF missing # {}
         THEN [type |-> "ImportError", name |-> FieldsImports[Min(missing)]]
         ELSE [type |-> "PasswordField", default_validators |-> DefaultValidators]

FieldSettings ==
    [PASSWORD_MIN_LENGTH : {None, Some(1), Some(DefaultMinLength)},
     PASSWORD_MAX_LENGTH : {None, Some(1)},
     PASSWORD_COMPLEXITY : {None, Some([k \in {"UPPER", "DIGITS"} |-> 1])},
     PASSWORD_COMMON_SEQUENCES : {COMMON_SEQUENCES, <<Str_abcdefgh>>},
     PASSWORD_DICTIONARY : {<<>>, <<Str_elephant>>},
     PASSWORD_MAX_COMMON_SUBSTRING_LENGTH : {DefaultMaxCommonSubstringLength}]

\* the host holds a candidate and its settings, and loads the form field to
\* validate the candidate with it
InitField ==
    /\ pc = "ready"
    /\ value \in SeqsUpTo({97, 65, 49}, MaxFieldLen) \cup {Str_myelephant99, Str_abcdefgh}
    /\ policy \in FieldSettings
    /\ outcome = Pending

LoadPasswordField ==
    /\ pc = "ready"
    /\ outcome' = ImportFields
    /\ pc' = "done"
    /\ UNCHANGED <<value, policy>>

SpecField == InitField /\ [][LoadPasswordField]_vars

\* the outcome of the first check, in the order of default_validators, that
\* does not accept the candidate
RECURSIVE FirstFailure(_)
FirstFailure(outcomes) ==
    IF outcomes = <<>> THEN ReturnNone
    ELSE IF Head(outcomes).type # "return" THEN Head(outcomes)
    ELSE FirstFailure(Tail(outcomes))

\* C1: the field's pipeline runs Length, CommonSequenceSimilarity,
\* DictionarySimilarity, Complexity, CommonSubstring in that order and its
\* outcome is that of the first check that fails, or Valid when none fails.
C1_PipelineFirstFailure ==
    pc = "done" =>
        outcome = FirstFailure(<<validate_length(policy, value),
                                 common_sequences(policy, value),
                                 dictionary_words(policy, value),
                                 complexity(policy, value),
                                 common_substring(policy, value)>>)

====
